---- MODULE Spec2Model ----
(***************************************************************************)
(* Room occupancy reconciliation (main.py): the reservation store and its  *)
(* conflict check, the penalty ledger, the room state engine ticked by the *)
(* background monitoring thread, and the request handlers that reach them. *)
(*                                                                         *)
(* Instants are integers counted in minutes; a calendar date is            *)
(* instant \div MinutesPerDay.  The seconds-valued engine parameters are   *)
(* taken in whole minutes.  Reservation ids are the positions in the store.*)
(***************************************************************************)
EXTENDS Integers, Sequences, FiniteSets, Bags, TLC

(* ------------------------------------------------------------------ *)
(* Bounds of the model                                                 *)
(* ------------------------------------------------------------------ *)
MaxRes == 2
MaxRecords == 3
MaxWall == 3

(* ------------------------------------------------------------------ *)
(* Program constants                                                   *)
(* ------------------------------------------------------------------ *)
MIN_RESERVE_MINUTES == 15
MAX_RESERVE_MINUTES == 120
MAX_RESERVE_DAYS_AHEAD == 7
ROOM_ID == "Room-A"
None == -1
MinutesPerDay == 24 * 60

VARIABLES
    clock,            \* the instant now_jst() returns
    wall,             \* time_utils: the real (wall-clock) time
    time_state,       \* time_utils: mode, anchor and scale of the clock
    occupied,         \* what occupancy_provider.get_is_occupied returns
    reservations,     \* reservation_repo: sequence of reservations, id = index
    penalties,        \* penalty_repo: append-only sequence of point records
    window_days,      \* PenaltyService rolling window, in days
    threshold,        \* PenaltyService ban threshold
    params,           \* room_manager's four runtime parameters
    arrived,          \* room_manager: reservations seen occupied while bound
    system_status,    \* the published snapshot
    pc,               \* position of the monitoring thread in its loop body
    t_now,            \* monitoring thread: current_time
    t_occ,            \* monitoring thread: is_occupied
    t_info,           \* monitoring thread: state_info
    last_response,    \* the answer to the last reservation or penalty request
    hist_noshow,      \* history: bag of the reservation ids ticks accrued a no-show for
    hist_seen,        \* history: reservation ids a tick saw occupied while bound
    hist_cancel_won,  \* history: ids whose cancel found them Confirmed
    hist_tick         \* history: the locals of the loop body that published last

vars == << clock, wall, time_state, occupied, reservations, penalties, window_days,
           threshold, params, arrived, system_status, pc, t_now, t_occ, t_info,
           last_response, hist_noshow, hist_seen, hist_cancel_won, hist_tick >>

clockVars == << wall, time_state >>

storeVars == << reservations >>
ledgerVars == << penalties, window_days, threshold >>
engineVars == << params, arrived >>
threadVars == << pc, t_now, t_occ, t_info >>
histVars == << hist_noshow, hist_seen, hist_cancel_won, hist_tick >>

(* ------------------------------------------------------------------ *)
(* Clock (time_utils)                                                  *)
(* ------------------------------------------------------------------ *)
RealTime == [mode |-> "real", anchor |-> None, scale |-> 1, since |-> None]

\* set_simulated(anchor_instant, scale), called at the real time `real`
set_simulated_time(state, real, anchor_instant, scale) ==
    IF scale <= 0
    THEN [ok |-> FALSE, err |-> "InvalidScale", state |-> state]
    ELSE [ok |-> TRUE, err |-> "none",
          state |-> [mode |-> "simulated", anchor |-> anchor_instant,
                     scale |-> scale, since |-> real]]

clear_simulated_time(state) == RealTime

\* now(): anchor + scale * (real time elapsed since set_simulated), or real time
now_jst(state, real) ==
    IF state.mode = "real" THEN real
    ELSE state.anchor + state.scale * (real - state.since)

get_time_status(state) == [mode |-> state.mode, scale |-> state.scale, anchor |-> state.anchor]

(* ------------------------------------------------------------------ *)
(* Reservation store (InMemoryReservationRepository(buffer_minutes=5)) *)
(* ------------------------------------------------------------------ *)
\* reservation_repo = InMemoryReservationRepository(buffer_minutes=5)
reservation_repo_unbuffered == [buffer_minutes |-> 0]

reservation_repo == [buffer_minutes |-> 5]

buffer_minutes == reservation_repo.buffer_minutes

Ids(store) == 1 .. Len(store)

ConfirmedIds(store, room_id) ==
    { i \in Ids(store) : store[i].room_id = room_id /\ store[i].status = "Confirmed" }

\* an existing Confirmed reservation of the room, widened by the buffer on each
\* side, meets [start, end]
conflicts(r, room_id, start, end) ==
    /\ r.room_id = room_id
    /\ r.status = "Confirmed"
    /\ r.start_time - buffer_minutes <= end
    /\ start <= r.end_time + buffer_minutes

\* create(room_id, user_id, start, end): the store after the call and the failure
create_reservation(store, room_id, user_id, start, end) ==
    IF end <= start
    THEN [ok |-> FALSE, err |-> "InvalidRange", store |-> store, id |-> None]
    ELSE IF \E i \in Ids(store) : conflicts(store[i], room_id, start, end)
    THEN [ok |-> FALSE, err |-> "Overlap", store |-> store, id |-> None]
    ELSE [ok |-> TRUE, err |-> "none",
          store |-> Append(store, [room_id |-> room_id, user_id |-> user_id,
                                   start_time |-> start, end_time |-> end,
                                   status |-> "Confirmed"]),
          id |-> Len(store) + 1]

\* cancel(reservation_id) -> bool: unknown ids and ids already Cancelled or
\* Completed report false and change nothing
cancel_reservation(store, id) ==
    IF id \in Ids(store) /\ store[id].status \notin {"Cancelled", "Completed"}
    THEN [ok |-> TRUE, store |-> [store EXCEPT ![id].status = "Cancelled"]]
    ELSE [ok |-> FALSE, store |-> store]

\* find_active_for(room_id, instant): the Confirmed reservations of the room whose
\* window, widened by the arrival-window parameters, contains the instant
find_active_for_any_status(store, room_id, instant, before, after) ==
    { i \in Ids(store) :
        /\ store[i].room_id = room_id
        /\ store[i].start_time - before <= instant
        /\ instant <= store[i].end_time + after }

find_active_for(store, room_id, instant, before, after) ==
    { i \in ConfirmedIds(store, room_id) :
        /\ store[i].start_time - before <= instant
        /\ instant <= store[i].end_time + after }

(* ------------------------------------------------------------------ *)
(* Penalty ledger (PenaltyService over penalty_repo)                   *)
(* ------------------------------------------------------------------ *)
accrue(ledger, user_id, at_instant, points) ==
    Append(ledger, [user_id |-> user_id, points |-> points, occurred_at |-> at_instant])

RECURSIVE points_in_window(_, _, _, _)
points_in_window(ledger, user_id, from, to) ==
    IF ledger = << >> THEN 0
    ELSE LET rec == Head(ledger)
             counted == rec.user_id = user_id /\ from <= rec.occurred_at /\ rec.occurred_at <= to
         IN (IF counted THEN rec.points ELSE 0)
            + points_in_window(Tail(ledger), user_id, from, to)

RECURSIVE oldest_in_window(_, _, _, _)
oldest_in_window(ledger, user_id, from, to) ==
    IF ledger = << >> THEN None
    ELSE LET rec == Head(ledger)
             counted == rec.user_id = user_id /\ from <= rec.occurred_at /\ rec.occurred_at <= to
             rest == oldest_in_window(Tail(ledger), user_id, from, to)
         IN IF counted /\ (rest = None \/ rec.occurred_at < rest)
            THEN rec.occurred_at ELSE rest

get_summary(ledger, user_id, now) ==
    LET from == now - window_days * MinutesPerDay
        points == points_in_window(ledger, user_id, from, now)
        oldest == oldest_in_window(ledger, user_id, from, now)
    IN [points |-> points,
        threshold |-> threshold,
        is_banned |-> points >= threshold,
        ban_until |-> IF oldest = None THEN None
                      ELSE oldest + window_days * MinutesPerDay,
        window_days |-> window_days]

reset_user(ledger, user_id) ==
    SelectSeq(ledger, LAMBDA rec : rec.user_id # user_id)

(* ------------------------------------------------------------------ *)
(* Room state engine (RoomStateManager.update_state)                   *)
(* ------------------------------------------------------------------ *)
\* One evaluation for (is_occupied, current_time) with `bound` the reservation
\* resolved for the room (None when there is none).  `vacant_state` is the state
\* reported while an arrived holder is away before the cleanup margin has passed.
update_state(store, ledger, arr, p, is_occupied, current_time, bound, vacant_state) ==
    LET same == [store |-> store, ledger |-> ledger, arrived |-> arr, accrued_for |-> None]
    IN
    IF bound = None
    THEN same @@ [state |-> "IDLE", reservation_id |-> None, alert |-> "none"]
    ELSE LET r == store[bound] IN
    IF is_occupied
    THEN [same EXCEPT !.arrived = arr \cup {bound}] @@
         [state |-> IF current_time <= r.end_time THEN "IN_USE" ELSE "OVERSTAY",
          reservation_id |-> bound,
          alert |-> IF current_time > r.end_time + p.cleanup_margin_sec
                    THEN "overstay" ELSE "none"]
    ELSE IF current_time < r.start_time + p.grace_period_sec
    THEN same @@ [state |-> "AWAITING_ARRIVAL", reservation_id |-> bound, alert |-> "none"]
    ELSE IF bound \notin arr
    THEN [same EXCEPT !.store = [store EXCEPT ![bound].status = "NoShow"],
                      !.ledger = accrue(ledger, r.user_id, current_time, 1),
                      !.accrued_for = bound] @@
         [state |-> "NO_SHOW", reservation_id |-> bound, alert |-> "no_show"]
    ELSE IF current_time > r.end_time + p.cleanup_margin_sec
    THEN [same EXCEPT !.store = [store EXCEPT ![bound].status = "Completed"]] @@
         [state |-> "IDLE", reservation_id |-> None, alert |-> "none"]
    ELSE same @@ [state |-> vacant_state, reservation_id |-> bound, alert |-> "none"]

(* ------------------------------------------------------------------ *)
(* The monitoring thread (background_monitoring_task)                  *)
(* ------------------------------------------------------------------ *)
NoInfo == [state |-> "IDLE", reservation_id |-> None, alert |-> "none"]

\* room_manager.update_state(is_occupied, current_time): every result the call can
\* have, one per reservation it may resolve as bound
UpdateOutcomes(is_occupied, current_time) ==
    LET found == find_active_for(reservations, ROOM_ID, current_time,
                                 params.arrival_window_before_sec,
                                 params.arrival_window_after_sec)
    IN { update_state(reservations, penalties, arrived, params,
                      is_occupied, current_time, bound, vacant_state)
           @@ [bound |-> bound] :
         bound \in (IF found = {} THEN {None} ELSE found),
         vacant_state \in {"IN_USE", "AWAITING_ARRIVAL"} }

StateInfo(u) == [state |-> u.state, reservation_id |-> u.reservation_id, alert |-> u.alert]

\* what update_state leaves in the store, the ledger and the engine
Commit(u) ==
    /\ reservations' = u.store
    /\ penalties' = u.ledger
    /\ arrived' = u.arrived
    /\ hist_noshow' = IF u.accrued_for = None THEN hist_noshow
                      ELSE hist_noshow (+) SetToBag({u.accrued_for})

\* history: the locals a loop body published its snapshot from
NoTick == [current_time |-> None, is_occupied |-> FALSE, state_info |-> NoInfo]

Published(current_time, is_occupied, state_info) ==
    hist_tick' = [current_time |-> current_time, is_occupied |-> is_occupied,
                  state_info |-> state_info]

\* history: the provider reported occupancy on a tick that bound a reservation
Seen(reported, u) ==
    hist_seen' = IF reported /\ u.bound # None THEN hist_seen \cup {u.bound} ELSE hist_seen

\* the dictionary assigned to system_status
Snapshot(current_time, is_occupied, state_info) ==
    [timestamp |-> current_time,
     room_id |-> ROOM_ID,
     people_count |-> IF is_occupied THEN 1 ELSE 0,
     is_used |-> is_occupied,
     room_state |-> state_info.state,
     reservation_id |-> state_info.reservation_id,
     alert |-> state_info.alert]

\* One whole loop body with nothing running in between: read the clock, read
\* the occupancy, update the state, publish the snapshot.
MonitoringTick_blind ==
    /\ pc = "sleep"
    /\ LET current_time == clock
           is_occupied == FALSE
       IN \E u \in UpdateOutcomes(is_occupied, current_time) :
            /\ Commit(u)
            /\ Seen(occupied, u)
            /\ system_status' = Snapshot(current_time, occupied, StateInfo(u))
            /\ Published(current_time, occupied, StateInfo(u))
    /\ UNCHANGED << clock, clockVars, occupied, window_days, threshold, params, threadVars,
                    last_response, hist_cancel_won >>

MonitoringTick_wall_clock ==
    /\ pc = "sleep"
    /\ LET current_time == clock + 1
           is_occupied == occupied
       IN \E u \in UpdateOutcomes(is_occupied, current_time) :
            /\ Commit(u)
            /\ Seen(occupied, u)
            /\ system_status' = Snapshot(current_time, is_occupied, StateInfo(u))
            /\ Published(current_time, is_occupied, StateInfo(u))
    /\ UNCHANGED << clock, clockVars, occupied, window_days, threshold, params, threadVars,
                    last_response, hist_cancel_won >>

MonitoringTick_sticky_reservation ==
    /\ pc = "sleep"
    /\ LET current_time == clock
           is_occupied == occupied
       IN \E u \in UpdateOutcomes(is_occupied, current_time) :
            LET state_info == IF u.reservation_id = None
                              THEN [StateInfo(u) EXCEPT
                                      !.reservation_id = system_status.reservation_id]
                              ELSE StateInfo(u)
            IN /\ Commit(u)
               /\ Seen(occupied, u)
               /\ system_status' = Snapshot(current_time, is_occupied, state_info)
               /\ Published(current_time, is_occupied, state_info)
    /\ UNCHANGED << clock, clockVars, occupied, window_days, threshold, params, threadVars,
                    last_response, hist_cancel_won >>

MonitoringTick_previous_occupancy ==
    /\ pc = "sleep"
    /\ LET current_time == clock
           is_occupied == system_status.is_used
       IN \E u \in UpdateOutcomes(is_occupied, current_time) :
            /\ Commit(u)
            /\ Seen(occupied, u)
            /\ system_status' = Snapshot(current_time, is_occupied, StateInfo(u))
            /\ Published(current_time, is_occupied, StateInfo(u))
    /\ UNCHANGED << clock, clockVars, occupied, window_days, threshold, params, threadVars,
                    last_response, hist_cancel_won >>

MonitoringTick ==
    /\ pc = "sleep"
    /\ LET current_time == clock
           is_occupied == occupied
       IN \E u \in UpdateOutcomes(is_occupied, current_time) :
            /\ Commit(u)
            /\ Seen(occupied, u)
            /\ system_status' = Snapshot(current_time, is_occupied, StateInfo(u))
            /\ Published(current_time, is_occupied, StateInfo(u))
    /\ UNCHANGED << clock, clockVars, occupied, window_days, threshold, params, threadVars,
                    last_response, hist_cancel_won >>

\* The same loop body step by step, for what runs concurrently with it.
\* current_time = now_jst()
TickReadClock ==
    /\ pc = "sleep"
    /\ pc' = "read_occupancy"
    /\ t_now' = clock
    /\ UNCHANGED << clock, clockVars, occupied, storeVars, ledgerVars, engineVars, system_status,
                    t_occ, t_info, last_response, histVars >>

\* is_occupied = occupancy_provider.get_is_occupied(current_time)
TickReadOccupancy ==
    /\ pc = "read_occupancy"
    /\ pc' = "update_state"
    /\ t_occ' = occupied
    /\ UNCHANGED << clock, clockVars, occupied, storeVars, ledgerVars, engineVars, system_status,
                    t_now, t_info, last_response, histVars >>

\* occupancy_provider.get_is_occupied(current_time) raises: on to the except clause
TickReadOccupancyFails_assumes_vacant ==
    /\ pc = "read_occupancy"
    /\ pc' = "update_state"
    /\ t_occ' = FALSE
    /\ UNCHANGED << clock, clockVars, occupied, storeVars, ledgerVars, engineVars, system_status,
                    t_now, t_info, last_response, histVars >>

TickReadOccupancyFails ==
    /\ pc = "read_occupancy"
    /\ pc' = "except"
    /\ UNCHANGED << clock, clockVars, occupied, storeVars, ledgerVars, engineVars, system_status,
                    t_now, t_occ, t_info, last_response, histVars >>

\* occupancy_provider.get_is_occupied(current_time) does not return
TickReadOccupancyBlocks ==
    /\ pc = "read_occupancy"
    /\ pc' = "blocked"
    /\ UNCHANGED << clock, clockVars, occupied, storeVars, ledgerVars, engineVars, system_status,
                    t_now, t_occ, t_info, last_response, histVars >>

\* room_manager.update_state(is_occupied, current_time) raises, having changed nothing
TickUpdateStateFails ==
    /\ pc = "update_state"
    /\ pc' = "except"
    /\ UNCHANGED << clock, clockVars, occupied, storeVars, ledgerVars, engineVars, system_status,
                    t_now, t_occ, t_info, last_response, histVars >>

\* except Exception as e: print(...); then time.sleep(POLLING_INTERVAL)
TickLogError ==
    /\ pc = "except"
    /\ pc' = "sleep"
    /\ t_now' = None
    /\ t_occ' = FALSE
    /\ t_info' = NoInfo
    /\ UNCHANGED << clock, clockVars, occupied, storeVars, ledgerVars, engineVars, system_status,
                    last_response, histVars >>

\* state_info = room_manager.update_state(is_occupied, current_time)
TickUpdateState ==
    /\ pc = "update_state"
    /\ \E u \in UpdateOutcomes(t_occ, t_now) :
         /\ Commit(u)
         /\ Seen(t_occ, u)
         /\ t_info' = StateInfo(u)
    /\ pc' = "publish"
    /\ UNCHANGED << clock, clockVars, occupied, window_days, threshold, params, system_status,
                    t_now, t_occ, last_response, hist_cancel_won, hist_tick >>

\* system_status = {...}; then time.sleep(POLLING_INTERVAL)
TickPublish_in_place ==
    /\ pc = "publish"
    /\ system_status' = [system_status EXCEPT !.timestamp = t_now,
                                              !.people_count = IF t_occ THEN 1 ELSE 0,
                                              !.is_used = t_occ]
    /\ Published(t_now, t_occ, t_info)
    /\ pc' = "sleep"
    /\ t_now' = None
    /\ t_occ' = FALSE
    /\ t_info' = NoInfo
    /\ UNCHANGED << clock, clockVars, occupied, storeVars, ledgerVars, engineVars,
                    last_response, hist_noshow, hist_seen, hist_cancel_won >>

TickPublish ==
    /\ pc = "publish"
    /\ system_status' = Snapshot(t_now, t_occ, t_info)
    /\ Published(t_now, t_occ, t_info)
    /\ pc' = "sleep"
    /\ t_now' = None
    /\ t_occ' = FALSE
    /\ t_info' = NoInfo
    /\ UNCHANGED << clock, clockVars, occupied, storeVars, ledgerVars, engineVars,
                    last_response, hist_noshow, hist_seen, hist_cancel_won >>

(* ------------------------------------------------------------------ *)
(* Request handlers                                                    *)
(* ------------------------------------------------------------------ *)
Respond(op, code, body) == last_response' = [op |-> op, code |-> code, body |-> body]

\* the store holds at most MaxRes reservations in the model
StoreNotFull(store) == Len(store) < MaxRes

\* POST /debug/reservations; user_id "" stands for a body without user_id
DebugCreateReservation_default_room(user_id, room_id, start_dt, end_dt) ==
    /\ IF user_id = ""
       THEN /\ Respond("debug_create", 400, "user_id is required")
            /\ UNCHANGED reservations
       ELSE LET res == create_reservation(reservations, ROOM_ID, user_id, start_dt, end_dt)
            IN IF res.ok
               THEN /\ StoreNotFull(reservations)
                    /\ reservations' = res.store
                    /\ Respond("debug_create", 201, res.id)
               ELSE /\ Respond("debug_create", 400, res.err)
                    /\ UNCHANGED reservations
    /\ UNCHANGED << clock, clockVars, occupied, ledgerVars, engineVars, system_status,
                    threadVars, histVars >>

DebugCreateReservation_swapped(user_id, room_id, start_dt, end_dt) ==
    /\ IF user_id = ""
       THEN /\ Respond("debug_create", 400, "user_id is required")
            /\ UNCHANGED reservations
       ELSE LET res == create_reservation(reservations, room_id, user_id, end_dt, start_dt)
            IN IF res.ok
               THEN /\ StoreNotFull(reservations)
                    /\ reservations' = res.store
                    /\ Respond("debug_create", 201, res.id)
               ELSE /\ Respond("debug_create", 400, res.err)
                    /\ UNCHANGED reservations
    /\ UNCHANGED << clock, clockVars, occupied, ledgerVars, engineVars, system_status,
                    threadVars, histVars >>

DebugCreateReservation(user_id, room_id, start_dt, end_dt) ==
    /\ IF user_id = ""
       THEN /\ Respond("debug_create", 400, "user_id is required")
            /\ UNCHANGED reservations
       ELSE LET res == create_reservation(reservations, room_id, user_id, start_dt, end_dt)
            IN IF res.ok
               THEN /\ StoreNotFull(reservations)
                    /\ reservations' = res.store
                    /\ Respond("debug_create", 201, res.id)
               ELSE /\ Respond("debug_create", 400, res.err)
                    /\ UNCHANGED reservations
    /\ UNCHANGED << clock, clockVars, occupied, ledgerVars, engineVars, system_status,
                    threadVars, histVars >>

\* f"{date}T{hm}:00+09:00" parsed by parse_jst_datetime: minute hm of day date
ToInstant(date, hm) == date * MinutesPerDay + hm

DateOf(instant) == instant \div MinutesPerDay

\* POST /api/reservations
ApiCreateReservation_past_by_date(user_id, room_id, date, start_hm, end_hm) ==
    /\ LET now == clock
           summary == get_summary(penalties, user_id, now)
           start_dt == ToInstant(date, start_hm)
           end_dt == ToInstant(date, end_hm)
           duration_minutes == end_dt - start_dt
           latest_allowed == now + MAX_RESERVE_DAYS_AHEAD * MinutesPerDay
           reject(code, why) == /\ Respond("api_create", code, why)
                                /\ UNCHANGED reservations
       IN IF user_id = "" THEN reject(400, "user_id is required")
          ELSE IF summary.is_banned THEN reject(403, "user is banned")
          ELSE IF end_dt <= start_dt THEN reject(400, "end_time must be after start_time")
          ELSE IF DateOf(start_dt) < DateOf(now) THEN reject(400, "past")
          ELSE IF duration_minutes < MIN_RESERVE_MINUTES THEN reject(400, "too short")
          ELSE IF duration_minutes > MAX_RESERVE_MINUTES THEN reject(400, "too long")
          ELSE IF DateOf(start_dt) > DateOf(latest_allowed) THEN reject(400, "too far ahead")
          ELSE LET res == create_reservation(reservations, room_id, user_id, start_dt, end_dt)
               IN IF res.ok
                  THEN /\ StoreNotFull(reservations)
                       /\ reservations' = res.store
                       /\ Respond("api_create", 201, res.id)
                  ELSE reject(400, res.err)
    /\ UNCHANGED << clock, clockVars, occupied, ledgerVars, engineVars, system_status,
                    threadVars, histVars >>

ApiCreateReservation(user_id, room_id, date, start_hm, end_hm) ==
    /\ LET now == clock
           summary == get_summary(penalties, user_id, now)
           start_dt == ToInstant(date, start_hm)
           end_dt == ToInstant(date, end_hm)
           duration_minutes == end_dt - start_dt
           latest_allowed == now + MAX_RESERVE_DAYS_AHEAD * MinutesPerDay
           reject(code, why) == /\ Respond("api_create", code, why)
                                /\ UNCHANGED reservations
       IN IF user_id = "" THEN reject(400, "user_id is required")
          ELSE IF summary.is_banned THEN reject(403, "user is banned")
          ELSE IF end_dt <= start_dt THEN reject(400, "end_time must be after start_time")
          ELSE IF start_dt < now THEN reject(400, "past")
          ELSE IF duration_minutes < MIN_RESERVE_MINUTES THEN reject(400, "too short")
          ELSE IF duration_minutes > MAX_RESERVE_MINUTES THEN reject(400, "too long")
          ELSE IF DateOf(start_dt) > DateOf(latest_allowed) THEN reject(400, "too far ahead")
          ELSE LET res == create_reservation(reservations, room_id, user_id, start_dt, end_dt)
               IN IF res.ok
                  THEN /\ StoreNotFull(reservations)
                       /\ reservations' = res.store
                       /\ Respond("api_create", 201, res.id)
                  ELSE reject(400, res.err)
    /\ UNCHANGED << clock, clockVars, occupied, ledgerVars, engineVars, system_status,
                    threadVars, histVars >>

\* DELETE /api/reservations/<reservation_id>
ApiCancelReservation_ignores_result(reservation_id) ==
    /\ LET res == cancel_reservation(reservations, reservation_id)
       IN /\ reservations' = res.store
          /\ Respond("api_cancel", 200, reservation_id)
          /\ hist_cancel_won' =
                IF /\ res.ok
                   /\ reservations[reservation_id].status = "Confirmed"
                THEN hist_cancel_won \cup {reservation_id}
                ELSE hist_cancel_won
    /\ UNCHANGED << clock, clockVars, occupied, ledgerVars, engineVars, system_status,
                    threadVars, hist_noshow, hist_seen, hist_tick >>

ApiCancelReservation(reservation_id) ==
    /\ LET res == cancel_reservation(reservations, reservation_id)
       IN /\ reservations' = res.store
          /\ IF res.ok
             THEN Respond("api_cancel", 200, reservation_id)
             ELSE Respond("api_cancel", 404, reservation_id)
          /\ hist_cancel_won' =
                IF /\ res.ok
                   /\ reservations[reservation_id].status = "Confirmed"
                THEN hist_cancel_won \cup {reservation_id}
                ELSE hist_cancel_won
    /\ UNCHANGED << clock, clockVars, occupied, ledgerVars, engineVars, system_status,
                    threadVars, hist_noshow, hist_seen, hist_tick >>

\* GET /api/penalties/<user_id>
ApiPenaltySummary_all_time(user_id) ==
    /\ LET now == clock
           summary == get_summary(penalties, user_id, now)
           total == points_in_window(penalties, user_id, 0, now)
       IN Respond("api_penalty_summary", 200,
                  [summary EXCEPT !.points = total, !.is_banned = total >= threshold])
    /\ UNCHANGED << clock, clockVars, occupied, storeVars, ledgerVars, engineVars,
                    system_status, threadVars, histVars >>

ApiPenaltySummary_startup_clock(user_id) ==
    /\ LET now == 30 * MinutesPerDay
           summary == get_summary(penalties, user_id, now)
       IN Respond("api_penalty_summary", 200, summary)
    /\ UNCHANGED << clock, clockVars, occupied, storeVars, ledgerVars, engineVars,
                    system_status, threadVars, histVars >>

ApiPenaltySummary(user_id) ==
    /\ LET now == clock
           summary == get_summary(penalties, user_id, now)
       IN Respond("api_penalty_summary", 200, summary)
    /\ UNCHANGED << clock, clockVars, occupied, storeVars, ledgerVars, engineVars,
                    system_status, threadVars, histVars >>

\* POST /debug/penalties/reset/<user_id>
DebugResetPenalty(user_id) ==
    /\ penalties' = reset_user(penalties, user_id)
    /\ UNCHANGED << clock, clockVars, occupied, storeVars, window_days, threshold, engineVars,
                    system_status, threadVars, last_response, histVars >>

\* POST /debug/occupancy (DummyOccupancyProvider.set_occupied)
DebugSetOccupancy(value) ==
    /\ occupied' = value
    /\ UNCHANGED << clock, clockVars, storeVars, ledgerVars, engineVars, system_status,
                    threadVars, last_response, histVars >>

\* POST /debug/state_params: each parameter overwritten or kept
DebugStateParams(p) ==
    /\ params' = p
    /\ UNCHANGED << clock, clockVars, occupied, storeVars, ledgerVars, arrived, system_status,
                    threadVars, last_response, histVars >>

\* GET / and GET /api/room_status: jsonify(system_status)
Index ==
    /\ Respond("index", 200, system_status)
    /\ UNCHANGED << clock, clockVars, occupied, storeVars, ledgerVars, engineVars,
                    system_status, threadVars, histVars >>

ApiRoomStatus ==
    /\ Respond("api_room_status", 200, system_status)
    /\ UNCHANGED << clock, clockVars, occupied, storeVars, ledgerVars, engineVars,
                    system_status, threadVars, histVars >>

\* GET /debug/time
DebugGetTime ==
    /\ Respond("debug_get_time", 200, get_time_status(time_state))
    /\ UNCHANGED << clock, clockVars, occupied, storeVars, ledgerVars, engineVars,
                    system_status, threadVars, histVars >>

\* POST /debug/time with mode, scale and an optional "now" ("absent", "valid"
\* with the instant now_value, or "invalid" when it does not parse)
DebugSetTime_unit_scale(mode, scale, now_given, now_value) ==
    /\ IF mode = "real"
       THEN /\ time_state' = clear_simulated_time(time_state)
            /\ Respond("debug_set_time", 200, get_time_status(time_state'))
       ELSE IF mode = "simulated"
       THEN IF now_given = "invalid"
            THEN /\ Respond("debug_set_time", 400, "invalid now")
                 /\ UNCHANGED time_state
            ELSE LET sim_now == IF now_given = "valid" THEN now_value ELSE clock
                     res == set_simulated_time(time_state, wall, sim_now, 1)
                 IN /\ time_state' = res.state
                    /\ IF res.ok
                       THEN Respond("debug_set_time", 200, get_time_status(res.state))
                       ELSE Respond("debug_set_time", 400, res.err)
       ELSE /\ Respond("debug_set_time", 400, "mode must be 'real' or 'simulated'")
            /\ UNCHANGED time_state
    /\ clock' = now_jst(time_state', wall)
    /\ UNCHANGED << wall, occupied, storeVars, ledgerVars, engineVars,
                    system_status, threadVars, histVars >>

DebugSetTime_keeps_anchor(mode, scale, now_given, now_value) ==
    /\ IF mode = "real"
       THEN /\ time_state' = clear_simulated_time(time_state)
            /\ Respond("debug_set_time", 200, get_time_status(time_state'))
       ELSE IF mode = "simulated"
       THEN IF now_given = "invalid"
            THEN /\ Respond("debug_set_time", 400, "invalid now")
                 /\ UNCHANGED time_state
            ELSE LET sim_now == IF now_given = "valid" THEN now_value ELSE clock
                     res == set_simulated_time(time_state, wall, sim_now, scale)
                 IN /\ time_state' = [res.state EXCEPT !.mode = "simulated",
                                                       !.anchor = sim_now,
                                                       !.since = wall]
                    /\ IF res.ok
                       THEN Respond("debug_set_time", 200, get_time_status(res.state))
                       ELSE Respond("debug_set_time", 400, res.err)
       ELSE /\ Respond("debug_set_time", 400, "mode must be 'real' or 'simulated'")
            /\ UNCHANGED time_state
    /\ clock' = now_jst(time_state', wall)
    /\ UNCHANGED << wall, occupied, storeVars, ledgerVars, engineVars,
                    system_status, threadVars, histVars >>

DebugSetTime(mode, scale, now_given, now_value) ==
    /\ IF mode = "real"
       THEN /\ time_state' = clear_simulated_time(time_state)
            /\ Respond("debug_set_time", 200, get_time_status(time_state'))
       ELSE IF mode = "simulated"
       THEN IF now_given = "invalid"
            THEN /\ Respond("debug_set_time", 400, "invalid now")
                 /\ UNCHANGED time_state
            ELSE LET sim_now == IF now_given = "valid" THEN now_value ELSE clock
                     res == set_simulated_time(time_state, wall, sim_now, scale)
                 IN /\ time_state' = res.state
                    /\ IF res.ok
                       THEN Respond("debug_set_time", 200, get_time_status(res.state))
                       ELSE Respond("debug_set_time", 400, res.err)
       ELSE /\ Respond("debug_set_time", 400, "mode must be 'real' or 'simulated'")
            /\ UNCHANGED time_state
    /\ clock' = now_jst(time_state', wall)
    /\ UNCHANGED << wall, occupied, storeVars, ledgerVars, engineVars,
                    system_status, threadVars, histVars >>

\* real time passes by `elapsed`; now_jst() follows the clock's mode
WallAdvance(elapsed) ==
    /\ wall + elapsed <= MaxWall
    /\ wall' = wall + elapsed
    /\ clock' = now_jst(time_state, wall')
    /\ UNCHANGED << time_state, occupied, storeVars, ledgerVars, engineVars,
                    system_status, threadVars, last_response, histVars >>

\* time passes: now_jst() moves to a later instant
AdvanceClock(instants) ==
    /\ \E t \in instants : t > clock /\ clock' = t
    /\ wall' = clock'
    /\ UNCHANGED << time_state, occupied, storeVars, ledgerVars, engineVars, system_status,
                    threadVars, last_response, histVars >>

\* PenaltyService accrual at now_jst() (accrue(user_id, at_instant, points))
LedgerAccrue(user_id, points) ==
    /\ Len(penalties) < MaxRecords
    /\ penalties' = accrue(penalties, user_id, clock, points)
    /\ UNCHANGED << clock, clockVars, occupied, storeVars, window_days, threshold, engineVars,
                    system_status, threadVars, last_response, histVars >>

(* ------------------------------------------------------------------ *)
(* Initial state and specifications                                    *)
(* ------------------------------------------------------------------ *)
Params(grace, before, after, cleanup) ==
    [grace_period_sec |-> grace, arrival_window_before_sec |-> before,
     arrival_window_after_sec |-> after, cleanup_margin_sec |-> cleanup]

InitWith(start_instant, windows, thresholds, param_choices) ==
    /\ clock = start_instant
    /\ occupied = FALSE
    /\ reservations = << >>
    /\ penalties = << >>
    /\ window_days \in windows
    /\ threshold \in thresholds
    /\ params \in param_choices
    /\ arrived = {}
    /\ wall = start_instant
    /\ time_state = RealTime
    /\ system_status = [timestamp |-> None, room_id |-> ROOM_ID, people_count |-> 0,
                        is_used |-> FALSE, room_state |-> "IDLE",
                        reservation_id |-> None, alert |-> "none"]
    /\ pc = "sleep"
    /\ t_now = None
    /\ t_occ = FALSE
    /\ t_info = NoInfo
    /\ last_response = [op |-> "none", code |-> 0, body |-> None]
    /\ hist_noshow = EmptyBag
    /\ hist_seen = {}
    /\ hist_cancel_won = {}
    /\ hist_tick = NoTick

(* The engine: one room, one bookable slot [60, 90], two users, the        *)
(* instants before the slot, around the end of its grace period and past   *)
(* its cleanup margin, and two parameter settings, one with a grace period *)
(* longer than the slot.                                                   *)
EngineUsers == { "u1", "u2" }
EngineInstants == { 55, 64, 65, 96 }
EngineParams == { Params(5, 10, 10, 5), Params(40, 0, 10, 0) }

Init == InitWith(55, {30}, {1}, EngineParams)

Next ==
    \/ MonitoringTick
    \/ AdvanceClock(EngineInstants)
    \/ \E u \in EngineUsers : DebugCreateReservation(u, ROOM_ID, 60, 90)
    \/ \E id \in 1 .. MaxRes : ApiCancelReservation(id)
    \/ \E value \in BOOLEAN : DebugSetOccupancy(value)
    \/ \E p \in EngineParams : DebugStateParams(p)

Spec == Init /\ [][Next]_vars

(* The monitoring thread step by step beside the request handlers: one    *)
(* user, the slot [60, 90], the instants before and at the end of grace.   *)
ThreadInstants == { 55, 64, 65 }
ThreadParams == { Params(5, 10, 10, 5) }

InitThreads == InitWith(55, {30}, {1}, ThreadParams)

NextThreads ==
    \/ TickReadClock
    \/ TickReadOccupancy
    \/ TickUpdateState
    \/ TickPublish
    \/ AdvanceClock(ThreadInstants)
    \/ DebugCreateReservation("u1", ROOM_ID, 60, 90)
    \/ \E id \in 1 .. MaxRes : ApiCancelReservation(id)
    \/ \E value \in BOOLEAN : DebugSetOccupancy(value)

SpecThreads == InitThreads /\ [][NextThreads]_vars

(* The loop of the monitoring thread with its failures, under the status   *)
(* getters: each step of the loop body is taken once it stays possible.    *)
LoopBody ==
    \/ TickReadClock
    \/ TickReadOccupancy
    \/ TickReadOccupancyFails
    \/ TickReadOccupancyBlocks
    \/ TickUpdateState
    \/ TickUpdateStateFails
    \/ TickPublish
    \/ TickLogError

NextLoop ==
    \/ LoopBody
    \/ AdvanceClock(ThreadInstants)
    \/ DebugCreateReservation("u1", ROOM_ID, 60, 90)
    \/ \E value \in BOOLEAN : DebugSetOccupancy(value)
    \/ Index
    \/ ApiRoomStatus

SpecLoop == InitThreads /\ [][NextLoop]_vars /\ WF_vars(LoopBody)

(* The engine over two slots six minutes apart: instants inside and past   *)
(* the first slot, past its cleanup margin and past its widened window;    *)
(* arrival windows wider and narrower than the store's buffer.             *)
BindingSlots == { <<60, 90>>, <<96, 126>> }
BindingInstants == { 70, 92, 96, 101 }
BindingParams == { Params(5, 10, 10, 5), Params(5, 2, 2, 1) }

InitBinding == InitWith(70, {30}, {1}, BindingParams)

NextBinding ==
    \/ MonitoringTick
    \/ AdvanceClock(BindingInstants)
    \/ \E slot \in BindingSlots : DebugCreateReservation("u1", ROOM_ID, slot[1], slot[2])
    \/ \E id \in 1 .. MaxRes : ApiCancelReservation(id)
    \/ \E value \in BOOLEAN : DebugSetOccupancy(value)
    \/ \E p \in BindingParams : DebugStateParams(p)

SpecBinding == InitBinding /\ [][NextBinding]_vars

(* The /api/reservations route: today, the last bookable day and the day   *)
(* after it; slots that are fine, too short, too long and reversed; an     *)
(* instant before and one after the slot's start; a user one point below   *)
(* the ban threshold and at it.                                            *)
PolicyDates == { 0, MAX_RESERVE_DAYS_AHEAD, MAX_RESERVE_DAYS_AHEAD + 1 }
PolicyTimes == { <<60, 90>>, <<60, 70>>, <<60, 185>>, <<90, 60>> }
PolicyRequests ==
    { <<u, ROOM_ID, date, hm[1], hm[2]>> :
         u \in {"u1", ""}, date \in PolicyDates, hm \in PolicyTimes }
PolicyInstants == { 55, 61 }

InitPolicy == InitWith(55, {30}, {2}, ThreadParams)

NextPolicy ==
    \/ \E req \in PolicyRequests :
           ApiCreateReservation(req[1], req[2], req[3], req[4], req[5])
    \/ AdvanceClock(PolicyInstants)
    \/ LedgerAccrue("u1", 1)
    \/ DebugResetPenalty("u1")
    \/ \E id \in 1 .. MaxRes : ApiCancelReservation(id)

SpecPolicy == InitPolicy /\ [][NextPolicy]_vars

(* The clock behind /debug/time: real time passing one or two units at a   *)
(* time, scales that are negative, zero, one and three, an explicit "now"  *)
(* that is absent, valid or unparsable, and the tick that reads the clock. *)
ClockModes == { "real", "simulated", "frozen" }
ClockScales == { -1, 0, 1, 3 }
ClockNowGiven == { "absent", "valid", "invalid" }
ClockAnchors == { 50 }

InitClock == InitWith(0, {30}, {1}, ThreadParams)

NextClock ==
    \/ \E mode \in ClockModes, scale \in ClockScales,
          now_given \in ClockNowGiven, now_value \in ClockAnchors :
            DebugSetTime(mode, scale, now_given, now_value)
    \/ DebugGetTime
    \/ \E elapsed \in 1 .. 2 : WallAdvance(elapsed)
    \/ MonitoringTick

SpecClock == InitClock /\ [][NextClock]_vars

(* The reservation store behind both create routes and the cancel route:   *)
(* two rooms, slots that are apart, six and five minutes from each other,  *)
(* overlapping, empty and reversed; ticks move reservations out of         *)
(* Confirmed.                                                              *)
StoreSlots == { <<60, 90>>, <<96, 126>>, <<95, 110>>, <<90, 60>>, <<60, 60>> }
ApiSlots == { <<60, 90>>, <<90, 60>>, <<60, 60>> }
\* <<user_id, room_id, start, end>> of the bodies posted to /debug/reservations
DebugRequests ==
    { <<"u1", ROOM_ID, slot[1], slot[2]>> : slot \in StoreSlots }
      \cup { <<"u1", "Room-B", 60, 90>>, <<"u1", "Room-B", 90, 60>>,
              <<"", ROOM_ID, 60, 90>>, <<"", ROOM_ID, 90, 60>> }
\* <<user_id, room_id, date, start, end>> of the bodies posted to /api/reservations
ApiRequests ==
    { <<u, ROOM_ID, 0, slot[1], slot[2]>> : u \in {"u1", ""}, slot \in ApiSlots }
StoreInstants == { 55, 65, 96 }
StoreParams == { Params(5, 10, 10, 5) }

InitStore == InitWith(55, {30}, {1}, StoreParams)

NextStore ==
    \/ MonitoringTick
    \/ AdvanceClock(StoreInstants)
    \/ \E value \in BOOLEAN : DebugSetOccupancy(value)
    \/ \E req \in DebugRequests : DebugCreateReservation(req[1], req[2], req[3], req[4])
    \/ \E req \in ApiRequests :
           ApiCreateReservation(req[1], req[2], req[3], req[4], req[5])
    \/ \E id \in 1 .. MaxRes + 1 : ApiCancelReservation(id)

SpecStore == InitStore /\ [][NextStore]_vars

(* The penalty ledger: accruals by two users, a thirty-day window, the     *)
(* instants at which records enter and leave it.                           *)
Day == MinutesPerDay
LedgerUsers == { "u1", "u2" }
LedgerPoints == { 1, 2 }
LedgerInstants == { 30 * Day, 40 * Day, 60 * Day, 60 * Day + 1, 70 * Day + 1 }

InitLedger == InitWith(30 * Day, {30}, {1, 2}, { Params(5, 10, 10, 5) })

NextLedger ==
    \/ AdvanceClock(LedgerInstants)
    \/ \E points \in LedgerPoints : LedgerAccrue("u1", points)
    \/ LedgerAccrue("u2", 1)
    \/ \E u \in LedgerUsers : DebugResetPenalty(u)
    \/ \E u \in LedgerUsers : ApiPenaltySummary(u)

SpecLedger == InitLedger /\ [][NextLedger]_vars

(* ------------------------------------------------------------------ *)
(* Properties of the room state engine                                 *)
(* ------------------------------------------------------------------ *)
\* reservation id is Confirmed for the monitored room and its widened window
\* contains the clock
InWindow(id) ==
    /\ reservations[id].room_id = ROOM_ID
    /\ reservations[id].status = "Confirmed"
    /\ reservations[id].start_time - params.arrival_window_before_sec <= clock
    /\ clock <= reservations[id].end_time + params.arrival_window_after_sec

\* id is the one reservation a tick at the clock binds
OnlyBound(id) ==
    /\ id \in Ids(reservations)
    /\ InWindow(id)
    /\ \A other \in Ids(reservations) : InWindow(other) => other = id

NoShowRecord(id) ==
    [user_id |-> reservations[id].user_id, points |-> 1, occurred_at |-> clock]

\* C4: a tick that binds a Confirmed reservation for which no tick has seen
\* occupancy, and that reads occupancy false, reports AwaitingArrival without an
\* alert and changes neither the reservation nor the ledger while
\* now < start + grace_period_sec; from start + grace_period_sec on it marks the
\* reservation NoShow, reports the no-show alert and appends one point for the
\* reservation's user at now.
C4_GraceThenNoShow ==
    [][ MonitoringTick =>
          \A id \in Ids(reservations) :
            (OnlyBound(id) /\ id \notin hist_seen /\ ~occupied) =>
              IF clock < reservations[id].start_time + params.grace_period_sec
              THEN /\ system_status'.room_state = "AWAITING_ARRIVAL"
                   /\ system_status'.reservation_id = id
                   /\ system_status'.alert = "none"
                   /\ reservations' = reservations
                   /\ penalties' = penalties
              ELSE /\ reservations'[id].status = "NoShow"
                   /\ system_status'.alert = "no_show"
                   /\ system_status'.reservation_id = id
                   /\ penalties' = Append(penalties, NoShowRecord(id)) ]_vars

\* a reservation became NoShow exactly at start + grace with the alert published
\* and the point booked to its user
C4_Witness ==
    \E id \in Ids(reservations) :
        /\ reservations[id].status = "NoShow"
        /\ clock = reservations[id].start_time + params.grace_period_sec
        /\ params.grace_period_sec = 5
        /\ system_status.alert = "no_show"
        /\ system_status.reservation_id = id
        /\ Len(penalties) > 0
        /\ penalties[Len(penalties)] = NoShowRecord(id)

\* C5: the ticks accrue at most one no-show point per reservation.
C5_OneAccrualPerReservation ==
    \A id \in BagToSet(hist_noshow) : CopiesIn(id, hist_noshow) = 1

\* a reservation was marked NoShow, and a later tick inside its window has
\* run and reported Idle without a second point
C5_Witness ==
    \E id \in Ids(reservations) :
        /\ reservations[id].status = "NoShow"
        /\ CopiesIn(id, hist_noshow) = 1
        /\ system_status.room_state = "IDLE"
        /\ reservations[id].start_time <= clock
        /\ clock <= reservations[id].end_time
        /\ \A other \in Ids(reservations) : reservations[other].status # "Confirmed"

\* C6: a tick that reads occupancy true while a reservation is bound reports InUse
\* up to the reservation's end, and a reservation seen occupied while bound is
\* never NoShow and is never accrued a no-show point.
C6_SeenNeverNoShow ==
    [][ /\ MonitoringTick =>
            \A id \in Ids(reservations) :
              (OnlyBound(id) /\ occupied) =>
                /\ id \in hist_seen'
                /\ clock <= reservations[id].end_time =>
                      /\ system_status'.room_state = "IN_USE"
                      /\ system_status'.reservation_id = id
        /\ \A id \in hist_seen' :
              /\ reservations'[id].status # "NoShow"
              /\ CopiesIn(id, hist_noshow') = 0 ]_vars

\* a reservation was seen occupied, and a later tick past its grace period read
\* occupancy false and left it Confirmed
C6_Witness ==
    \E id \in hist_seen :
        /\ reservations[id].status = "Confirmed"
        /\ clock >= reservations[id].start_time + params.grace_period_sec
        /\ system_status.reservation_id = id
        /\ ~system_status.is_used
        /\ ~(\E other \in hist_seen : other # id)

SameRoomConfirmed(i, j) ==
    /\ i # j
    /\ reservations[i].room_id = reservations[j].room_id
    /\ reservations[i].status = "Confirmed"
    /\ reservations[j].status = "Confirmed"

\* C1 as stated: for every two Confirmed reservations of a room, the intervals
\* [start - 5, end + 5], each padded on both sides, do not overlap.
C1_BothPaddedDisjoint ==
    \A i, j \in Ids(reservations) :
        SameRoomConfirmed(i, j) =>
            \/ reservations[i].end_time + 5 < reservations[j].start_time - 5
            \/ reservations[j].end_time + 5 < reservations[i].start_time - 5

\* C1 as amended: for every two Confirmed reservations of a room, the interval
\* [start - 5, end + 5] of one does not meet [start, end] of the other: more than
\* five minutes lie between them.
C1_GapExceedsBuffer ==
    \A i, j \in Ids(reservations) :
        SameRoomConfirmed(i, j) =>
            \/ reservations[i].end_time + 5 < reservations[j].start_time
            \/ reservations[j].end_time + 5 < reservations[i].start_time

\* two Confirmed reservations of one room six minutes apart
C1_Witness ==
    \E i, j \in Ids(reservations) :
        /\ SameRoomConfirmed(i, j)
        /\ reservations[j].start_time - reservations[i].end_time = 6

\* an existing Confirmed reservation of the room, padded by five minutes on each
\* side, meets [start, end]
ClaimedConflict(room_id, start, end) ==
    \E i \in Ids(reservations) :
        /\ reservations[i].room_id = room_id
        /\ reservations[i].status = "Confirmed"
        /\ reservations[i].start_time - 5 <= end
        /\ start <= reservations[i].end_time + 5

Added(room_id, user_id, start, end) ==
    Append(reservations, [room_id |-> room_id, user_id |-> user_id, start_time |-> start,
                          end_time |-> end, status |-> "Confirmed"])

\* a request handler answered on this step
Answered(op) ==
    /\ last_response'.op = op
    /\ (last_response' # last_response \/ reservations' # reservations)

\* C2: a create with end > start fails with Overlap exactly when a Confirmed
\* reservation of the same room, padded by the buffer, meets [start, end];
\* a failed create leaves the store as it was and a successful one appends
\* exactly one Confirmed reservation.
C2_OverlapExactly ==
    [][ Answered("debug_create") =>
        \A req \in DebugRequests :
          (/\ req[1] # ""
           /\ req[4] > req[3]
           /\ DebugCreateReservation(req[1], req[2], req[3], req[4])) =>
             /\ (last_response'.code = 400 /\ last_response'.body = "Overlap")
                   <=> ClaimedConflict(req[2], req[3], req[4])
             /\ ClaimedConflict(req[2], req[3], req[4]) =>
                   /\ last_response'.code = 400
                   /\ reservations' = reservations
             /\ ~ClaimedConflict(req[2], req[3], req[4]) =>
                   /\ last_response'.code = 201
                   /\ reservations' = Added(req[2], req[1], req[3], req[4]) ]_vars

\* a create was refused with Overlap while the store also holds a reservation
\* that is no longer Confirmed and one of the other room
C2_Witness ==
    /\ last_response.op = "debug_create"
    /\ last_response.code = 400
    /\ last_response.body = "Overlap"
    /\ \E i, j \in Ids(reservations) :
          /\ reservations[i].status \in {"NoShow", "Completed", "Cancelled"}
          /\ reservations[j].status = "Confirmed"
          /\ reservations[i].room_id = reservations[j].room_id
          /\ reservations[i].start_time = reservations[j].start_time

RangeRejected(codes) ==
    /\ Answered("debug_create") =>
         \A req \in DebugRequests :
           (/\ req[4] <= req[3]
            /\ DebugCreateReservation(req[1], req[2], req[3], req[4])) =>
              /\ last_response'.code = 400
              /\ reservations' = reservations
    /\ Answered("api_create") =>
         \A req \in ApiRequests :
           (/\ req[5] <= req[4]
            /\ ApiCreateReservation(req[1], req[2], req[3], req[4], req[5])) =>
              /\ last_response'.code \in codes
              /\ last_response'.code = 403 =>
                    get_summary(penalties, req[1], clock).is_banned
              /\ reservations' = reservations
    /\ \A i \in Ids(reservations') :
          reservations'[i].end_time > reservations'[i].start_time

\* C3 as stated: every create with end <= start is answered 400 at both routes
\* and leaves the store as it was; every stored reservation has end > start.
C3_Rejected400 == [][ RangeRejected({400}) ]_vars

\* C3 as amended: every create with end <= start is refused and leaves the store
\* as it was, with 400 at /debug/reservations and at /api/reservations, where a
\* banned user is answered 403 instead; every stored reservation has end > start.
C3_RejectedUnchanged == [][ RangeRejected({400, 403}) ]_vars

\* a create with end <= start was refused for InvalidRange with a reservation stored
C3_Witness ==
    /\ last_response.op = "debug_create"
    /\ last_response.code = 400
    /\ last_response.body = "InvalidRange"
    /\ Len(reservations) > 0

\* C8: cancel of a Confirmed reservation answers 200 and sets Cancelled; cancel
\* of a Cancelled or unknown id answers 404 and changes nothing; once Cancelled
\* a reservation stays Cancelled; 404 is answered exactly when cancel returned
\* false.
C8_CancelOnce ==
    [][ /\ Answered("api_cancel") =>
             \A id \in 1 .. MaxRes + 1 :
              ApiCancelReservation(id) =>
                /\ (id \in Ids(reservations) /\ reservations[id].status = "Confirmed") =>
                      /\ last_response'.code = 200
                      /\ reservations' = [reservations EXCEPT ![id].status = "Cancelled"]
                /\ (id \notin Ids(reservations) \/ reservations[id].status = "Cancelled") =>
                      /\ last_response'.code = 404
                      /\ reservations' = reservations
                /\ (last_response'.code = 404) <=> ~cancel_reservation(reservations, id).ok
        /\ \A id \in Ids(reservations) :
             reservations[id].status = "Cancelled" => reservations'[id].status = "Cancelled"
      ]_vars

\* a reservation cancelled from Confirmed was cancelled again and answered 404
C8_Witness ==
    \E id \in hist_cancel_won :
        /\ last_response.op = "api_cancel"
        /\ last_response.code = 404
        /\ last_response.body = id
        /\ reservations[id].status = "Cancelled"

(* ------------------------------------------------------------------ *)
(* Properties of the penalty ledger                                    *)
(* ------------------------------------------------------------------ *)
Window == window_days * MinutesPerDay

\* the records of the user with occurred_at in [now - window_days, now]
Counted(user_id, now) ==
    { i \in 1 .. Len(penalties) :
        /\ penalties[i].user_id = user_id
        /\ now - Window <= penalties[i].occurred_at
        /\ penalties[i].occurred_at <= now }

RECURSIVE SumPoints(_)
SumPoints(records) ==
    IF records = {} THEN 0
    ELSE LET i == CHOOSE i \in records : TRUE
         IN penalties[i].points + SumPoints(records \ {i})

OldestAt(records) ==
    CHOOSE at \in { penalties[i].occurred_at : i \in records } :
        \A i \in records : at <= penalties[i].occurred_at

NewestAt(records) ==
    CHOOSE at \in { penalties[i].occurred_at : i \in records } :
        \A i \in records : at >= penalties[i].occurred_at

RecordsOf(user_id) == { i \in 1 .. Len(penalties) : penalties[i].user_id = user_id }

\* C9: the summary's points are the sum of the points of the user's records with
\* occurred_at in [now - window_days, now], and is_banned is points >= threshold.
C9_SummaryPoints ==
    [][ Answered("api_penalty_summary") =>
        \A u \in LedgerUsers :
          ApiPenaltySummary(u) =>
             /\ last_response'.body.points = SumPoints(Counted(u, clock))
             /\ last_response'.body.is_banned
                   <=> (SumPoints(Counted(u, clock)) >= threshold) ]_vars

\* a summary counted two points for a user who also has a record older than
\* the window, beside a record of the other user, and reported the ban
C9_Witness ==
    /\ last_response.op = "api_penalty_summary"
    /\ last_response.body.points = 2
    /\ last_response.body.is_banned
    /\ threshold = 2
    /\ \E u \in LedgerUsers :
          /\ SumPoints(Counted(u, clock)) = 2
          /\ Cardinality(RecordsOf(u)) = 2
          /\ Cardinality(Counted(u, clock)) = 1
          /\ RecordsOf(u) # 1 .. Len(penalties)

BanUntilIsOldest(u) ==
    /\ Counted(u, clock) # {}
    /\ last_response'.body.ban_until = OldestAt(Counted(u, clock)) + Window

\* C10 as stated: for a banned user ban_until is occurred_at + window_days of the
\* oldest record inside the window, and with the ledger unchanged the summary at
\* every instant later than ban_until reports is_banned = false.
C10_ExpiresAtBanUntil ==
    [][ Answered("api_penalty_summary") =>
        \A u \in LedgerUsers :
          (ApiPenaltySummary(u) /\ last_response'.body.is_banned) =>
             /\ BanUntilIsOldest(u)
             /\ \A t \in LedgerInstants :
                   t > last_response'.body.ban_until =>
                      ~get_summary(penalties, u, t).is_banned ]_vars

\* C10 as amended: for a banned user ban_until is occurred_at + window_days of the
\* oldest record inside the window, and with the ledger unchanged the summary at
\* every instant later than occurred_at + window_days of the user's newest
\* record reports is_banned = false.
C10_ExpiresAfterNewest ==
    [][ Answered("api_penalty_summary") =>
        \A u \in LedgerUsers :
          (ApiPenaltySummary(u) /\ last_response'.body.is_banned) =>
             /\ BanUntilIsOldest(u)
             /\ \A t \in LedgerInstants :
                   t > NewestAt(RecordsOf(u)) + Window =>
                      ~get_summary(penalties, u, t).is_banned ]_vars

\* a summary reported a ban with its ban_until; the clock has since passed the
\* window of the user's newest record and the ledger, unchanged, no longer bans
C10_Witness ==
    /\ last_response.op = "api_penalty_summary"
    /\ last_response.body.is_banned
    /\ \E u \in LedgerUsers :
          /\ RecordsOf(u) = 1 .. Len(penalties)
          /\ Len(penalties) >= 2
          /\ last_response.body.ban_until = OldestAt(RecordsOf(u)) + Window
          /\ OldestAt(RecordsOf(u)) < NewestAt(RecordsOf(u))
          /\ clock > NewestAt(RecordsOf(u)) + Window
          /\ ~get_summary(penalties, u, clock).is_banned

(* ------------------------------------------------------------------ *)
(* Properties of the monitoring loop and the published snapshot        *)
(* ------------------------------------------------------------------ *)
\* the loop body is abandoned: it leaves the occupancy read or the state update
\* for the except clause
TickAbandoned == pc \in {"read_occupancy", "update_state"} /\ pc' = "except"

C12_LoopKeepsTicking == (pc = "read_occupancy") ~> (pc = "sleep")

InitialSnapshot ==
    [timestamp |-> None, room_id |-> ROOM_ID, room_state |-> "IDLE",
     reservation_id |-> None, alert |-> "none", is_used |-> FALSE, people_count |-> 0]

\* the complete snapshot of the one loop body with these locals
SnapshotOf(tick) ==
    [timestamp |-> tick.current_time, room_id |-> ROOM_ID,
     room_state |-> tick.state_info.state,
     reservation_id |-> tick.state_info.reservation_id,
     alert |-> tick.state_info.alert,
     is_used |-> tick.is_occupied,
     people_count |-> IF tick.is_occupied THEN 1 ELSE 0]

Untorn(snapshot, tick) ==
    /\ snapshot = InitialSnapshot \/ snapshot = SnapshotOf(tick)
    /\ snapshot.people_count = 1 <=> snapshot.is_used
    /\ snapshot.people_count \in {0, 1}

\* C13: every snapshot a status getter returns is the initial snapshot or the
\* complete snapshot of the one tick that published last, and people_count is 1
\* exactly when is_used, else 0.
C13_NoTornSnapshot ==
    [][ /\ Untorn(system_status', hist_tick')
        /\ (\/ Answered("index") /\ Index
            \/ Answered("api_room_status") /\ ApiRoomStatus) =>
              Untorn(last_response'.body, hist_tick) ]_vars

\* a getter returned the snapshot of an earlier tick while the loop body was
\* about to publish one that differs from it
C13_Witness ==
    /\ last_response.op = "api_room_status"
    /\ last_response.body = system_status
    /\ last_response.body.timestamp # None
    /\ pc = "publish"
    /\ t_now > last_response.body.timestamp
    /\ t_occ # last_response.body.is_used
    /\ t_info.state # last_response.body.room_state

(* ------------------------------------------------------------------ *)
(* Properties of the clock                                             *)
(* ------------------------------------------------------------------ *)
SetTimeRequests == ClockModes \X ClockScales \X ClockNowGiven \X ClockAnchors

\* C14: a POST /debug/time asking for simulated time with scale <= 0 is answered
\* 400 (InvalidScale when its "now" is usable) and leaves mode, anchor and scale
\* of the clock, and so what now() and status() return, as they were.
C14_InvalidScaleRejected ==
    [][ Answered("debug_set_time") =>
        \A req \in SetTimeRequests :
          (/\ req[1] = "simulated"
           /\ req[2] <= 0
           /\ DebugSetTime(req[1], req[2], req[3], req[4])) =>
              /\ last_response'.code = 400
              /\ req[3] # "invalid" => last_response'.body = "InvalidScale"
              /\ time_state' = time_state
              /\ get_time_status(time_state') = get_time_status(time_state)
              /\ clock' = clock ]_vars

\* a clock running at scale 3 since an earlier instant refused a non-positive scale
C14_Witness ==
    /\ last_response.op = "debug_set_time"
    /\ last_response.code = 400
    /\ last_response.body = "InvalidScale"
    /\ time_state.mode = "simulated"
    /\ time_state.scale = 3
    /\ wall > time_state.since
    /\ clock = time_state.anchor + 3 * (wall - time_state.since)

\* what now() has to return for a clock set as `state` at the real time `real`
ExpectedNow(state, real) ==
    IF state.mode = "simulated"
    THEN state.anchor + state.scale * (real - state.since)
    ELSE real

\* C15: a successful set_simulated(anchor, scale) makes every later now(), until
\* the next reconfiguration, anchor + scale * (real time elapsed since the call),
\* so now() does not decrease; after clear_simulated now() is real time and
\* status() reports real mode.
C15_SimulatedNow ==
    [][ /\ Answered("debug_set_time") =>
           \A req \in SetTimeRequests :
             DebugSetTime(req[1], req[2], req[3], req[4]) =>
               /\ (req[1] = "simulated" /\ req[2] > 0 /\ req[3] # "invalid") =>
                     /\ time_state'.mode = "simulated"
                     /\ time_state'.scale = req[2]
                     /\ time_state'.anchor = (IF req[3] = "valid" THEN req[4] ELSE clock)
                     /\ time_state'.since = wall
                     /\ clock' = time_state'.anchor
                     /\ last_response'.code = 200
                     /\ last_response'.body.mode = "simulated"
               /\ req[1] = "real" =>
                     /\ clock' = wall
                     /\ last_response'.code = 200
                     /\ last_response'.body.mode = "real"
        /\ time_state' = time_state =>
              /\ clock' = ExpectedNow(time_state, wall')
              /\ clock' >= clock
        /\ system_status'.timestamp # system_status.timestamp =>
              system_status'.timestamp = ExpectedNow(time_state, wall) ]_vars

\* one unit of real time after set_simulated with scale 3 a tick read anchor + 3
C15_Witness ==
    /\ time_state.mode = "simulated"
    /\ time_state.scale = 3
    /\ wall = time_state.since + 1
    /\ clock = time_state.anchor + 3
    /\ system_status.timestamp = clock

(* ------------------------------------------------------------------ *)
(* Properties of the binding of reservations by the tick               *)
(* ------------------------------------------------------------------ *)
\* the Confirmed reservations of the room whose widened window contains the clock
Candidates == { id \in Ids(reservations) : InWindow(id) }

\* C16: a tick at which no Confirmed reservation of the room has its widened
\* window around now publishes state Idle, no reservation id and no alert, for
\* either occupancy, and changes neither the store nor the ledger.
C16_IdleWhenUnbound ==
    [][ (MonitoringTick /\ Candidates = {}) =>
          /\ system_status'.room_state = "IDLE"
          /\ system_status'.reservation_id = None
          /\ system_status'.alert = "none"
          /\ system_status'.is_used = occupied
          /\ system_status'.timestamp = clock
          /\ penalties' = penalties
          /\ reservations' = reservations ]_vars

\* a tick inside the slot of a cancelled reservation read occupancy true and
\* published Idle
C16_Witness ==
    /\ system_status.timestamp = clock
    /\ system_status.room_state = "IDLE"
    /\ system_status.is_used
    /\ Candidates = {}
    /\ \E id \in Ids(reservations) :
          /\ reservations[id].status = "Cancelled"
          /\ reservations[id].start_time <= clock
          /\ clock <= reservations[id].end_time

\* C17: a tick that binds a reservation and reads occupancy true reports InUse
\* up to the reservation's end and Overstay after it, with the please-vacate
\* alert exactly when now > end + cleanup_margin_sec, and changes neither the
\* store nor the ledger.
C17_InUseThenOverstay ==
    [][ (MonitoringTick /\ Candidates # {} /\ occupied) =>
          LET id == system_status'.reservation_id IN
          /\ id \in Candidates
          /\ system_status'.room_state =
                (IF clock <= reservations[id].end_time THEN "IN_USE" ELSE "OVERSTAY")
          /\ system_status'.alert =
                (IF clock > reservations[id].end_time + params.cleanup_margin_sec
                 THEN "overstay" ELSE "none")
          /\ reservations' = reservations
          /\ penalties' = penalties ]_vars

\* a tick after the end of the bound reservation, still inside its cleanup
\* margin, read occupancy true and published Overstay without an alert
C17_Witness ==
    /\ system_status.timestamp = clock
    /\ system_status.room_state = "OVERSTAY"
    /\ system_status.alert = "none"
    /\ system_status.is_used
    /\ system_status.reservation_id \in Candidates
    /\ clock > reservations[system_status.reservation_id].end_time
    /\ penalties = << >>

\* C18: at every instant, for every setting of the arrival windows, at most one
\* Confirmed reservation of the room has its widened window around now.
C18_UniqueBinding == Cardinality(Candidates) <= 1

\* reservation id of the room is Confirmed and its end and cleanup margin lie
\* before the clock
Elapsed(id) ==
    /\ reservations[id].room_id = ROOM_ID
    /\ reservations[id].status = "Confirmed"
    /\ clock > reservations[id].end_time + params.cleanup_margin_sec

Acceptable(user_id, date, start_hm, end_hm) ==
    LET start == date * MinutesPerDay + start_hm
        end == date * MinutesPerDay + end_hm
    IN /\ ~get_summary(penalties, user_id, clock).is_banned
       /\ end > start
       /\ start >= clock
       /\ end - start >= MIN_RESERVE_MINUTES
       /\ end - start <= MAX_RESERVE_MINUTES
       /\ date <= (clock \div MinutesPerDay) + MAX_RESERVE_DAYS_AHEAD

\* C20: POST /api/reservations stores a reservation only for a user who is not
\* banned and a slot with end > start, start >= now, a duration from
\* MIN_RESERVE_MINUTES to MAX_RESERVE_MINUTES and a date not after that of now +
\* MAX_RESERVE_DAYS_AHEAD days; any other request is answered 403 for a banned
\* user and 400 otherwise and leaves the store as it was.
C20_PolicyEnforced ==
    [][ Answered("api_create") =>
        \A req \in PolicyRequests :
          ApiCreateReservation(req[1], req[2], req[3], req[4], req[5]) =>
            /\ reservations' # reservations =>
                  /\ Acceptable(req[1], req[3], req[4], req[5])
                  /\ last_response'.code = 201
                  /\ Len(reservations') = Len(reservations) + 1
                  /\ reservations'[Len(reservations')].user_id = req[1]
                  /\ reservations'[Len(reservations')].start_time
                        = req[3] * MinutesPerDay + req[4]
                  /\ reservations'[Len(reservations')].end_time
                        = req[3] * MinutesPerDay + req[5]
            /\ ~Acceptable(req[1], req[3], req[4], req[5]) =>
                  /\ reservations' = reservations
                  /\ last_response'.code =
                        (IF req[1] # "" /\ get_summary(penalties, req[1], clock).is_banned
                         THEN 403 ELSE 400) ]_vars

\* a user with one point, below the threshold, booked the last bookable day
C20_Witness ==
    /\ last_response.op = "api_create"
    /\ last_response.code = 201
    /\ Len(penalties) = 1
    /\ ~get_summary(penalties, "u1", clock).is_banned
    /\ reservations[last_response.body].start_time
          = MAX_RESERVE_DAYS_AHEAD * MinutesPerDay + 60
    /\ reservations[last_response.body].status = "Confirmed"
    /\ clock = 55

====
